---- MODULE Spec2Model ----
(***************************************************************************)
(* Model of run_daily.py: the daily Fear & Greed report generator.         *)
(*                                                                         *)
(* Floats are modelled as exact rationals <<num, den>> with den > 0, and   *)
(* NaN as the empty tuple <<>>.  The Korean/arrow string labels of the     *)
(* source are written in ASCII:                                            *)
(*   trend bins  "strong_down" "down" "flat" "up" "strong_up"  and  "NA"   *)
(*   actions     "expand" (hwakdae) "neutral" (jungnip) "reduce" (chukso)  *)
(*   verdicts    "buy_leaning" "neutral" "defensive_leaning"               *)
(***************************************************************************)
EXTENDS Integers, Sequences, FiniteSets, TLC

VARIABLES
    trendIn,    \* argument handed to _trend_bin
    trendOut,   \* <<label>> once _trend_bin has returned, <<>> before
    indexFile,  \* docs/report_index.json
    lastRun,    \* <<[file, asof]>> of the latest _update_report_index call
    runs,       \* number of _update_report_index calls made so far
    df,         \* the observation table as _read_fg returns it
    strategy,   \* <<result>> once _strategy_rules has returned, <<>> before
    heat,       \* <<result>> once _make_heatmap_tables has returned or raised, <<>> before
    pc,         \* position of main
    fgCsv,      \* data/..._with_forward.csv, the primary observation table
    fwdCsv,     \* data/fg_forward_summary_last1y_rescaled_pretty.csv
    kpi,        \* <<kpi>> once main has computed it, <<>> before
    fwdHtml,    \* fwd_table_html, "" before it is read
    written,    \* the output files this run has written
    err,        \* the exception that aborted main, "" if none
    race        \* the two concurrent runs of _update_report_index, <<>> when there are none

trendVars == <<trendIn, trendOut>>

indexVars == <<indexFile, lastRun, runs, race>>

mainVars == <<pc, fgCsv, fwdCsv, kpi, fwdHtml, written, err>>

vars == <<trendIn, trendOut, indexFile, lastRun, runs, df, strategy, heat,
          pc, fgCsv, fwdCsv, kpi, fwdHtml, written, err, race>>

----------------------------------------------------------------------------
(* Bounds *)

\* trailing returns handed to _trend_bin range over -MaxMille..MaxMille thousandths
MaxMille == 60
\* number of consecutive runs of _update_report_index
MaxRuns == 2
\* as-of dates are 1..MaxAsof
MaxAsof == 2
\* longest table handed to _strategy_rules
MaxRowsStrategy == 7
\* longest primary table a run of main reads
MaxRowsMain == 7
\* rows after the first five (the rows whose 5-day return is defined) of the
\* tables handed to _make_heatmap_tables
TailRows == 2

----------------------------------------------------------------------------
(* Floats *)

NaN == <<>>

Rat(n, d) == <<n, d>>

\* pd.isna
isna(x) == x = NaN

Lt(a, b) == a[1] * b[2] < b[1] * a[2]

Le(a, b) == a[1] * b[2] <= b[1] * a[2]

Min(a, b) == IF a < b THEN a ELSE b

----------------------------------------------------------------------------
(* _trend_bin *)

TrendOrder == <<"strong_down", "down", "flat", "up", "strong_up">>

\* _trend_bin with the down band's upper edge made exclusive
_trend_bin_StrictDown(value) ==
    IF isna(value) THEN "NA"
    ELSE IF Le(value, Rat(-5, 100)) THEN "strong_down"
    ELSE IF Lt(value, Rat(-2, 100)) THEN "down"
    ELSE IF Lt(value, Rat(2, 100)) THEN "flat"
    ELSE IF Lt(value, Rat(5, 100)) THEN "up"
    ELSE "strong_up"

_trend_bin(value) ==
    IF isna(value) THEN "NA"
    ELSE IF Le(value, Rat(-5, 100)) THEN "strong_down"
    ELSE IF Le(value, Rat(-2, 100)) THEN "down"
    ELSE IF Lt(value, Rat(2, 100)) THEN "flat"
    ELSE IF Lt(value, Rat(5, 100)) THEN "up"
    ELSE "strong_up"

----------------------------------------------------------------------------
(* The observation table (a pandas DataFrame) *)

\* A table is [cols |-> set of column names, rows |-> sequence of rows]; a row
\* maps every column name below to <<v>> (a value) or NaN (an empty cell, and
\* every cell of a column the table does not have).
ColumnNames ==
    {"date", "fear_greed_1y_rescaled", "fear_greed", "fg_bucket_1y",
     "index_close", "fwd_ret_20d_1y", "momentum"}

EmptyRow == [c \in ColumnNames |-> NaN]

NoTable == [cols |-> {}, rows |-> <<>>]

\* str(x) of a cell: str(nan) is "nan"
Str(x) == IF isna(x) THEN "nan" ELSE x[1]

_safe_col(d, col) ==
    col \in d.cols /\ \E i \in 1..Len(d.rows) : ~isna(d.rows[i][col])

\* df[col].pct_change(k) at row i: x[i] / x[i-k] - 1, NaN for the first k rows
pct_change(d, col, k, i) ==
    IF i <= k \/ isna(d.rows[i][col]) \/ isna(d.rows[i - k][col]) THEN NaN
    ELSE Rat(d.rows[i][col][1] - d.rows[i - k][col][1], d.rows[i - k][col][1])

\* Series.iloc[-1] of pct_change(k)
LastRet(d, k) ==
    IF _safe_col(d, "index_close")
    THEN pct_change(d, "index_close", k, Len(d.rows))
    ELSE NaN

----------------------------------------------------------------------------
(* _strategy_rules *)

Zero == Rat(0, 1)

\* RuleA with every label outside the five treated as Neutral
RuleA_UnknownNeutral(bucket) ==
    IF bucket \in {"Extreme Fear", "Fear"} THEN "expand"
    ELSE IF bucket \in {"Greed", "Extreme Greed"} THEN "reduce"
    ELSE "neutral"

\* A: level rule on the bucket label
RuleA(bucket) ==
    IF bucket \in {"Extreme Fear", "Fear"} THEN "expand"
    ELSE IF bucket = "Neutral" THEN "neutral"
    ELSE "reduce"

\* RuleB with a zero return counted as a rise
RuleB_ZeroRises(ret3, ret5) ==
    IF ~isna(ret3) /\ ~isna(ret5) /\ Le(Zero, ret3) /\ Le(Zero, ret5) THEN "expand"
    ELSE IF ~isna(ret3) /\ ~isna(ret5) /\ Lt(ret3, Zero) /\ Lt(ret5, Zero) THEN "reduce"
    ELSE "neutral"

\* B: trend rule on the 3-day and 5-day returns
RuleB(ret3, ret5) ==
    IF ~isna(ret3) /\ ~isna(ret5) /\ Lt(Zero, ret3) /\ Lt(Zero, ret5) THEN "expand"
    ELSE IF ~isna(ret3) /\ ~isna(ret5) /\ Lt(ret3, Zero) /\ Lt(ret5, Zero) THEN "reduce"
    ELSE "neutral"

\* {"expand": 1, "neutral": 0, "reduce": -1}.get(action, 0)
ActionScore(action) ==
    IF action = "expand" THEN 1
    ELSE IF action = "neutral" THEN 0
    ELSE IF action = "reduce" THEN -1
    ELSE 0

\* Final with the buy threshold off by one
Final_StrictBuy(score) ==
    IF score > 1 THEN "buy_leaning"
    ELSE IF score <= -1 THEN "defensive_leaning"
    ELSE "neutral"

Final(score) ==
    IF score >= 1 THEN "buy_leaning"
    ELSE IF score <= -1 THEN "defensive_leaning"
    ELSE "neutral"

_strategy_rules(d) ==
    LET last   == d.rows[Len(d.rows)]
        fg     == IF _safe_col(d, "fear_greed_1y_rescaled")
                  THEN last["fear_greed_1y_rescaled"] ELSE last["fear_greed"]
        bucket == IF _safe_col(d, "fg_bucket_1y") THEN Str(last["fg_bucket_1y"]) ELSE "NA"
        ret3   == LastRet(d, 3)
        ret5   == LastRet(d, 5)
        a      == RuleA(bucket)
        b      == RuleB(ret3, ret5)
    IN  [fg |-> fg, bucket |-> bucket, ret3 |-> ret3, ret5 |-> ret5,
         A |-> a, B |-> b, final |-> Final(ActionScore(a) + ActionScore(b))]

----------------------------------------------------------------------------
(* _make_heatmap_tables *)

\* _bucket_order with unknown labels ranked first instead of last
_bucket_order_UnknownFirst(x) ==
    IF x = "Extreme Fear" THEN 0
    ELSE IF x = "Fear" THEN 1
    ELSE IF x = "Neutral" THEN 2
    ELSE IF x = "Greed" THEN 3
    ELSE IF x = "Extreme Greed" THEN 4
    ELSE -1

_bucket_order(x) ==
    IF x = "Extreme Fear" THEN 0
    ELSE IF x = "Fear" THEN 1
    ELSE IF x = "Neutral" THEN 2
    ELSE IF x = "Greed" THEN 3
    ELSE IF x = "Extreme Greed" THEN 4
    ELSE 99

\* insert row r into a sequence sorted by date
RECURSIVE InsertByDate(_, _)
InsertByDate(rows, r) ==
    IF rows = <<>> THEN <<r>>
    ELSE IF r["date"][1] < rows[Len(rows)]["date"][1]
         THEN InsertByDate(SubSeq(rows, 1, Len(rows) - 1), r) \o <<rows[Len(rows)]>>
         ELSE rows \o <<r>>

\* sort_values("date") of rows with distinct dates
RECURSIVE SortByDate(_)
SortByDate(rows) ==
    IF rows = <<>> THEN <<>>
    ELSE InsertByDate(SortByDate(SubSeq(rows, 1, Len(rows) - 1)), rows[Len(rows)])

\* Series.unique(): the distinct values in order of first appearance
RECURSIVE Unique(_)
Unique(xs) ==
    IF xs = <<>> THEN <<>>
    ELSE LET init == Unique(SubSeq(xs, 1, Len(xs) - 1))
             x    == xs[Len(xs)]
         IN  IF \E i \in 1..Len(init) : init[i] = x THEN init ELSE init \o <<x>>

\* insert x after every element whose key is not larger (a stable sort step)
RECURSIVE InsertByKey(_, _)
InsertByKey(xs, x) ==
    IF xs = <<>> THEN <<x>>
    ELSE IF _bucket_order(x) < _bucket_order(xs[Len(xs)])
         THEN InsertByKey(SubSeq(xs, 1, Len(xs) - 1), x) \o <<xs[Len(xs)]>>
         ELSE xs \o <<x>>

\* sorted(xs, key=_bucket_order)
RECURSIVE SortedByBucketOrder(_)
SortedByBucketOrder(xs) ==
    IF xs = <<>> THEN <<>>
    ELSE InsertByKey(SortedByBucketOrder(SubSeq(xs, 1, Len(xs) - 1)), xs[Len(xs)])

\* the rows of d with ret_5d and trend_bin added
WithTrend(d) ==
    [i \in 1..Len(d.rows) |->
        [row    |-> d.rows[i],
         ret_5d |-> pct_change(d, "index_close", 5, i),
         trend_bin |-> <<_trend_bin(pct_change(d, "index_close", 5, i))>>]]

\* dropna(subset=["fg_bucket_1y", "trend_bin", "fwd_ret_20d_1y"]), then bucket = str(...);
\* the trend_bin cell holds a string on every row ("NA" where ret_5d is
\* undefined), so it is never an empty cell
DropNa(rs) ==
    LET kept == SelectSeq(rs, LAMBDA r : /\ ~isna(r.row["fg_bucket_1y"])
                                         /\ ~isna(r.trend_bin)
                                         /\ ~isna(r.row["fwd_ret_20d_1y"]))
    IN  [i \in 1..Len(kept) |->
            [date |-> kept[i].row["date"],
             bucket |-> Str(kept[i].row["fg_bucket_1y"]),
             trend_bin |-> Str(kept[i].trend_bin),
             fwd |-> kept[i].row["fwd_ret_20d_1y"][1]]]

\* one group of groupby(["bucket", "trend_bin"]): [n, sum, wins] over its rows
RECURSIVE GroupOf(_, _, _)
GroupOf(d, b, t) ==
    IF d = <<>> THEN [n |-> 0, sum |-> 0, wins |-> 0]
    ELSE LET g == GroupOf(SubSeq(d, 1, Len(d) - 1), b, t)
             r == d[Len(d)]
         IN  IF r.bucket = b /\ r.trend_bin = t
             THEN [n |-> g.n + 1, sum |-> g.sum + r.fwd,
                   wins |-> g.wins + (IF r.fwd > 0 THEN 1 ELSE 0)]
             ELSE g

\* PivotMean with empty cells filled with 0
PivotMean_ZeroFill(d, b, t) ==
    LET g == GroupOf(d, b, t) IN IF g.n = 0 THEN Rat(0, 1) ELSE Rat(g.sum, g.n)

\* .mean().unstack("trend_bin").reindex(...): NaN where the group does not exist
PivotMean(d, b, t) ==
    LET g == GroupOf(d, b, t) IN IF g.n = 0 THEN NaN ELSE Rat(g.sum, g.n)

\* .apply(lambda s: float((s > 0).mean())).unstack("trend_bin").reindex(...)
PivotWin(d, b, t) ==
    LET g == GroupOf(d, b, t) IN IF g.n = 0 THEN NaN ELSE Rat(g.wins, g.n)

\* index and columns of both pivots
Cells(index, columns) ==
    {<<index[i], columns[j]>> : i \in 1..Len(index), j \in 1..Len(columns)}

HeatNone ==
    [kind |-> "none", index |-> <<>>, columns |-> <<>>,
     mean |-> <<>>, win |-> <<>>, latest |-> <<>>]

\* d.sort_values("date").iloc[-1] on an empty frame: IndexError
HeatRaised ==
    [kind |-> "raised", index |-> <<>>, columns |-> <<>>,
     mean |-> <<>>, win |-> <<>>, latest |-> <<>>]

\* the body of _make_heatmap_tables after the check of the required columns
HeatTables(df0) ==
    LET d == DropNa(WithTrend(df0))
        bucket_order == SortedByBucketOrder(Unique([i \in 1..Len(d) |-> d[i].bucket]))
        trend_order == TrendOrder
        sorted == SortByDate(d)
    IN  IF d = <<>> THEN HeatRaised
        ELSE [kind |-> "tables",
              index |-> bucket_order,
              columns |-> trend_order,
              mean |-> [c \in Cells(bucket_order, trend_order) |-> PivotMean(d, c[1], c[2])],
              win |-> [c \in Cells(bucket_order, trend_order) |-> PivotWin(d, c[1], c[2])],
              latest |-> <<sorted[Len(sorted)].bucket, sorted[Len(sorted)].trend_bin>>]

HeatReq == {"fg_bucket_1y", "fwd_ret_20d_1y", "index_close"}

\* _make_heatmap_tables without the check of the required columns
_make_heatmap_tables_NoReqCheck(df0) == HeatTables(df0)

_make_heatmap_tables(df0) ==
    IF ~(\A c \in HeatReq : _safe_col(df0, c)) THEN HeatNone ELSE HeatTables(df0)

----------------------------------------------------------------------------
(* _update_report_index *)

\* items = items[:10]
MaxItems == 10

\* f"..._{asof}_embedded.html"
DatedFile(asof) == <<"gomtang_1Y_rescaled", asof, "embedded.html">>

AbsentIndex == [state |-> "absent", latest_asof |-> 0, items |-> <<>>]

MalformedIndex == [state |-> "malformed", latest_asof |-> 0, items |-> <<>>]

\* LoadItems reading a key the payload does not have: always []
LoadItems_WrongKey(file) == <<>>

\* the items read back from the file: [] when it is absent or does not parse
LoadItems(file) == IF file.state = "ok" THEN file.items ELSE <<>>

\* NewItems without the removal of the entry that has the new filename
NewItems_NoDedup(items, new_dated_file, asof) ==
    LET ins == <<[file |-> new_dated_file, asof |-> asof]>> \o items
    IN  SubSeq(ins, 1, Min(MaxItems, Len(ins)))

NewItems(items, new_dated_file, asof) ==
    LET kept == SelectSeq(items, LAMBDA x : x.file # new_dated_file)
        ins  == <<[file |-> new_dated_file, asof |-> asof]>> \o kept
    IN  SubSeq(ins, 1, Min(MaxItems, Len(ins)))

\* the payload written to report_index.json (updated_utc, a wall-clock stamp, left out)
_update_report_index(file, new_dated_file, asof) ==
    [state |-> "ok", latest_asof |-> asof,
     items |-> NewItems(LoadItems(file), new_dated_file, asof)]

----------------------------------------------------------------------------
(* _read_fg, _read_forward_summary_table_html and the steps of main *)

\* the header names _read_fg accepts for the date column ("nalja" is the Korean one)
DateHeaders == {"nalja", "date", "Date"}

\* _read_fg going on without a date column instead of raising
_read_fg_NoDateCheck(csv) ==
    IF csv.state = "missing" THEN [err |-> "FileNotFoundError", df |-> NoTable]
    ELSE IF csv.state = "unreadable" THEN [err |-> "read_csv", df |-> NoTable]
    ELSE [err |-> "",
          df |-> [cols |-> csv.table.cols \cup {"date"},
                  rows |-> SortByDate(csv.table.rows)]]

\* [err |-> "" or the exception, df |-> the table sorted by date]
_read_fg(csv) ==
    IF csv.state = "missing" THEN [err |-> "FileNotFoundError", df |-> NoTable]
    ELSE IF csv.state = "unreadable" THEN [err |-> "read_csv", df |-> NoTable]
    ELSE IF csv.dateHeader \notin DateHeaders THEN [err |-> "ValueError_date", df |-> NoTable]
    ELSE [err |-> "",
          df |-> [cols |-> csv.table.cols \cup {"date"},
                  rows |-> SortByDate(csv.table.rows)]]

\* [err |-> "" or the exception, html |-> the table or the placeholder paragraph]
_read_forward_summary_table_html(csv) ==
    IF csv = "missing" THEN [err |-> "", html |-> "placeholder"]
    ELSE IF csv = "unreadable" THEN [err |-> "fwd_read_csv", html |-> ""]
    ELSE [err |-> "", html |-> "table"]

\* main, lines 628-651: [err, kpi]
Kpi(d) ==
    LET n == Len(d.rows) IN
    IF n = 0 THEN [err |-> "IndexError_empty", kpi |-> <<>>]
    ELSE IF ~_safe_col(d, "fear_greed_1y_rescaled") /\ "fear_greed" \notin d.cols
    THEN [err |-> "KeyError_score", kpi |-> <<>>]
    ELSE LET fg_val == IF _safe_col(d, "fear_greed_1y_rescaled")
                       THEN d.rows[n]["fear_greed_1y_rescaled"]
                       ELSE d.rows[n]["fear_greed"]
         IN  IF isna(fg_val) THEN [err |-> "ValueError_nan", kpi |-> <<>>]   \* int(nan)
             ELSE [err |-> "",
                   kpi |-> <<[asof |-> d.rows[n]["date"][1],
                              fg |-> fg_val,
                              bucket_name |-> IF _safe_col(d, "fg_bucket_1y")
                                              THEN Str(d.rows[n]["fg_bucket_1y"]) ELSE "NA",
                              bucket_range |-> <<(fg_val[1] \div 5) * 5, (fg_val[1] \div 5) * 5 + 5>>,
                              index_close |-> IF _safe_col(d, "index_close")
                                              THEN d.rows[n]["index_close"] ELSE NaN,
                              ret3 |-> LastRet(d, 3),
                              ret5 |-> LastRet(d, 5)]>>]

Abort(e) ==
    /\ pc' = "aborted"
    /\ err' = e

\* lines 623-625: _ensure_dirs(); df = _read_fg()
MainReadFg ==
    /\ pc = "read_fg"
    /\ LET r == _read_fg(fgCsv)
       IN  \/ /\ r.err = ""
              /\ df' = r.df
              /\ pc' = "kpi"
              /\ UNCHANGED err
           \/ /\ r.err # ""
              /\ Abort(r.err)
              /\ UNCHANGED df
    /\ UNCHANGED <<trendVars, indexVars, strategy, heat, fgCsv, fwdCsv, kpi, fwdHtml, written>>

\* lines 627-651
MainKpi ==
    /\ pc = "kpi"
    /\ LET r == Kpi(df)
       IN  \/ /\ r.err = ""
              /\ kpi' = r.kpi
              /\ pc' = "strategy"
              /\ UNCHANGED err
           \/ /\ r.err # ""
              /\ Abort(r.err)
              /\ UNCHANGED kpi
    /\ UNCHANGED <<trendVars, indexVars, df, strategy, heat, fgCsv, fwdCsv, fwdHtml, written>>

\* line 654
MainStrategy ==
    /\ pc = "strategy"
    /\ strategy' = <<_strategy_rules(df)>>
    /\ pc' = "fig_fg_line"
    /\ UNCHANGED <<trendVars, indexVars, df, heat, fgCsv, fwdCsv, kpi, fwdHtml, written, err>>

\* line 662: _fig_fg_line saves fg_line.png
MainFigFgLine ==
    /\ pc = "fig_fg_line"
    /\ written' = written \cup {"fg_line.png"}
    /\ pc' = "fig_components"
    /\ UNCHANGED <<trendVars, indexVars, df, strategy, heat, fgCsv, fwdCsv, kpi, fwdHtml, err>>

\* line 663: _fig_components_grid returns without a file when no component
\* column has data ("momentum" stands for the eight component columns)
MainFigComponents ==
    /\ pc = "fig_components"
    /\ written' = IF _safe_col(df, "momentum")
                  THEN written \cup {"components_grid.png"} ELSE written
    /\ pc' = "heatmap"
    /\ UNCHANGED <<trendVars, indexVars, df, strategy, heat, fgCsv, fwdCsv, kpi, fwdHtml, err>>

\* lines 665-667: _make_heatmap_tables, then _fig_heatmap for each pivot.
\* _fig_heatmap returns at once for a pivot that is None; for a real pivot the
\* drawing is the plotting library's, which either saves the image or raises.
MainHeatmap ==
    /\ pc = "heatmap"
    /\ LET h == _make_heatmap_tables(df)
       IN  /\ heat' = <<h>>
           /\ \/ /\ h.kind = "none"
                 /\ pc' = "fwd_summary"
                 /\ UNCHANGED <<written, err>>
              \/ /\ h.kind = "raised"
                 /\ Abort("IndexError_heat")
                 /\ UNCHANGED written
              \/ /\ h.kind = "tables"
                 /\ written' = written \cup {"heat_mean_20d.png", "heat_win_20d.png"}
                 /\ pc' = "fwd_summary"
                 /\ UNCHANGED err
              \/ /\ h.kind = "tables"
                 /\ Abort("render")
                 /\ UNCHANGED written
    /\ UNCHANGED <<trendVars, indexVars, df, strategy, fgCsv, fwdCsv, kpi, fwdHtml>>

\* line 677
MainFwdSummary ==
    /\ pc = "fwd_summary"
    /\ LET r == _read_forward_summary_table_html(fwdCsv)
       IN  \/ /\ r.err = ""
              /\ fwdHtml' = r.html
              /\ pc' = "update_index"
              /\ UNCHANGED err
           \/ /\ r.err # ""
              /\ Abort(r.err)
              /\ UNCHANGED fwdHtml
    /\ UNCHANGED <<trendVars, indexVars, df, strategy, heat, fgCsv, fwdCsv, kpi, written>>

\* lines 680-683
MainUpdateIndex ==
    /\ pc = "update_index"
    /\ LET asof == kpi[1].asof
       IN  /\ indexFile' = _update_report_index(indexFile, DatedFile(asof), asof)
           /\ lastRun' = <<[file |-> DatedFile(asof), asof |-> asof]>>
    /\ runs' = runs + 1
    /\ written' = written \cup {"report_index.json"}
    /\ pc' = "write_html"
    /\ UNCHANGED <<trendVars, df, strategy, heat, fgCsv, fwdCsv, kpi, fwdHtml, err, race>>

HtmlFiles == {"dated.html", "latest_embedded.html", "index.html"}

\* lines 685-696
MainWriteHtml ==
    /\ pc = "write_html"
    /\ written' = written \cup HtmlFiles
    /\ pc' = "done"
    /\ UNCHANGED <<trendVars, indexVars, df, strategy, heat, fgCsv, fwdCsv, kpi, fwdHtml, err>>

----------------------------------------------------------------------------
(* Idle values of the parts a specification does not exercise *)

TrendIdle == trendIn = NaN /\ trendOut = <<>>

IndexIdle == indexFile = AbsentIndex /\ lastRun = <<>> /\ runs = 0 /\ race = <<>>

TableIdle == df = NoTable /\ strategy = <<>> /\ heat = <<>>

NoCsv == [state |-> "missing", dateHeader |-> "none", table |-> NoTable]

MainIdle ==
    /\ pc = "idle"
    /\ fgCsv = NoCsv
    /\ fwdCsv = "missing"
    /\ kpi = <<>>
    /\ fwdHtml = ""
    /\ written = {}
    /\ err = ""

----------------------------------------------------------------------------
(* SpecTrend: _trend_bin applied to every input of the bounded set *)

TrendInputs == {NaN} \cup {Rat(n, 1000) : n \in -MaxMille..MaxMille}

InitTrend ==
    /\ trendIn \in TrendInputs
    /\ trendOut = <<>>
    /\ IndexIdle
    /\ TableIdle
    /\ MainIdle

TrendBinStep ==
    /\ trendOut = <<>>
    /\ trendOut' = <<_trend_bin(trendIn)>>
    /\ UNCHANGED <<trendIn, indexVars, df, strategy, heat, mainVars>>

NextTrend == TrendBinStep

SpecTrend == InitTrend /\ [][NextTrend]_vars

----------------------------------------------------------------------------
(* SpecIndex: consecutive runs of _update_report_index *)

\* one more filename than the index can hold
IndexFiles == {DatedFile(a) : a \in 1..(MaxItems + 1)}

\* a well-formed index as earlier runs leave it: k distinct filenames, newest first
IndexOfLen(k) ==
    [state |-> "ok", latest_asof |-> 1,
     items |-> [i \in 1..k |-> [file |-> DatedFile(i), asof |-> 1]]]

InitIndex ==
    /\ indexFile \in {AbsentIndex, MalformedIndex}
                     \cup {IndexOfLen(k) : k \in {0, 1, MaxItems - 1, MaxItems}}
    /\ lastRun = <<>>
    /\ runs = 0
    /\ race = <<>>
    /\ TrendIdle
    /\ TableIdle
    /\ MainIdle

UpdateReportIndex(new_dated_file, asof) ==
    /\ runs < MaxRuns
    /\ indexFile' = _update_report_index(indexFile, new_dated_file, asof)
    /\ lastRun' = <<[file |-> new_dated_file, asof |-> asof]>>
    /\ runs' = runs + 1
    /\ UNCHANGED <<trendVars, df, strategy, heat, mainVars, race>>

NextIndex == \E f \in IndexFiles, a \in 1..MaxAsof : UpdateReportIndex(f, a)

SpecIndex == InitIndex /\ [][NextIndex]_vars

----------------------------------------------------------------------------
(* SpecRace: two runs of _update_report_index on the same file at once *)

\* Each run is [pc, items, file, asof, seen]: it reads the file ("read"),
\* opens it for writing, which empties it ("write"), and writes its payload
\* ("flush"); seen is the other run's position at the moment this run read.
RaceRun(f, a) == [pc |-> "read", items |-> <<>>, file |-> f, asof |-> a, seen |-> ""]

Other(p) == 3 - p

InitRace ==
    /\ indexFile \in {AbsentIndex, MalformedIndex}
                     \cup {IndexOfLen(k) : k \in {0, 1, MaxItems - 1, MaxItems}}
    /\ \E f1 \in IndexFiles :
       \E f2 \in IndexFiles \ {f1} :
       \E a1 \in 1..MaxAsof, a2 \in 1..MaxAsof :
          race = <<RaceRun(f1, a1), RaceRun(f2, a2)>>
    /\ lastRun = <<>>
    /\ runs = 0
    /\ TrendIdle
    /\ TableIdle
    /\ MainIdle

\* lines 339-344: items = json.loads(read_text()).get("items", []), [] on any error
RaceRead(p) ==
    /\ race[p].pc = "read"
    /\ race' = [race EXCEPT ![p].pc = "write",
                            ![p].items = LoadItems(indexFile),
                            ![p].seen = race[Other(p)].pc]
    /\ UNCHANGED <<indexFile, lastRun, runs, trendVars, df, strategy, heat, mainVars>>

\* line 356, write_text opening the file: the file is empty until the text is written
RaceOpen(p) ==
    /\ race[p].pc = "write"
    /\ indexFile' = MalformedIndex
    /\ race' = [race EXCEPT ![p].pc = "flush"]
    /\ UNCHANGED <<lastRun, runs, trendVars, df, strategy, heat, mainVars>>

\* lines 346-356: the payload built from the items this run read
RaceFlush(p) ==
    /\ race[p].pc = "flush"
    /\ indexFile' = [state |-> "ok", latest_asof |-> race[p].asof,
                     items |-> NewItems(race[p].items, race[p].file, race[p].asof)]
    /\ lastRun' = <<[file |-> race[p].file, asof |-> race[p].asof]>>
    /\ runs' = runs + 1
    /\ race' = [race EXCEPT ![p].pc = "done"]
    /\ UNCHANGED <<trendVars, df, strategy, heat, mainVars>>

NextRace == \E p \in {1, 2} : RaceRead(p) \/ RaceOpen(p) \/ RaceFlush(p)

SpecRace == InitRace /\ [][NextRace]_vars

----------------------------------------------------------------------------
(* SpecStrategy: _strategy_rules applied to the tables main can hand it *)

BucketLabels == {"Extreme Fear", "Fear", "Neutral", "Greed", "Extreme Greed"}

\* a label outside the five
OtherLabel == "Other"

\* main reaches _strategy_rules only with a score column whose last cell is a
\* number; rows before the last carry the bucket "Neutral"
StrategyRow(i, n, closes, lastBucket) ==
    [EmptyRow EXCEPT !["date"] = <<i>>,
                     !["fear_greed"] = <<50>>,
                     !["fg_bucket_1y"] = IF i = n THEN lastBucket ELSE <<"Neutral">>,
                     !["index_close"] = closes[i]]

InitStrategy ==
    /\ \E n \in 1..MaxRowsStrategy :
       \E closes \in [1..n -> {<<100>>, <<101>>}] :
       \E lastBucket \in {<<b>> : b \in BucketLabels \cup {OtherLabel}} \cup {NaN} :
       \E bc \in {{}, {"fg_bucket_1y"}}, cc \in {{}, {"index_close"}} :
          df = [cols |-> {"date", "fear_greed"} \cup bc \cup cc,
                rows |-> [i \in 1..n |->
                            StrategyRow(i, n,
                                        IF cc = {} THEN [j \in 1..n |-> NaN] ELSE closes,
                                        IF bc = {} THEN NaN ELSE lastBucket)]]
    /\ strategy = <<>>
    /\ heat = <<>>
    /\ TrendIdle
    /\ IndexIdle
    /\ MainIdle

StrategyRulesStep ==
    /\ strategy = <<>>
    /\ strategy' = <<_strategy_rules(df)>>
    /\ UNCHANGED <<trendVars, indexVars, df, heat, mainVars>>

NextStrategy == StrategyRulesStep

SpecStrategy == InitStrategy /\ [][NextStrategy]_vars

----------------------------------------------------------------------------
(* SpecHeat: _make_heatmap_tables applied to tables sorted by date *)

\* the first five rows (no 5-day return yet) share one bucket cell and one
\* forward-return cell; every later row is free
HeatRow(i, bucket, fwd, close) ==
    [EmptyRow EXCEPT !["date"] = <<i>>,
                     !["fear_greed"] = <<50>>,
                     !["fg_bucket_1y"] = bucket,
                     !["index_close"] = close,
                     !["fwd_ret_20d_1y"] = fwd]

HeatBuckets == {<<"Greed">>, <<"Extreme Fear">>, <<OtherLabel>>, NaN}

HeatFwds == {NaN, <<-1>>, <<1>>}

HeatCloses == {<<100>>, <<103>>}

InitHeat ==
    /\ \E k \in 1..TailRows :
       \E wb \in HeatBuckets, wf \in {NaN, <<1>>} :
       \E tb \in [1..k -> HeatBuckets], tf \in [1..k -> HeatFwds], tc \in [1..k -> HeatCloses] :
          df = [cols |-> {"date", "fear_greed", "fg_bucket_1y", "index_close", "fwd_ret_20d_1y"},
                rows |-> [i \in 1..(5 + k) |->
                            IF i <= 5 THEN HeatRow(i, wb, wf, <<100>>)
                            ELSE HeatRow(i, tb[i - 5], tf[i - 5], tc[i - 5])]]
    /\ strategy = <<>>
    /\ heat = <<>>
    /\ TrendIdle
    /\ IndexIdle
    /\ MainIdle

MakeHeatmapTablesStep ==
    /\ heat = <<>>
    /\ heat' = <<_make_heatmap_tables(df)>>
    /\ UNCHANGED <<trendVars, indexVars, df, strategy, mainVars>>

NextHeat == MakeHeatmapTablesStep

SpecHeat == InitHeat /\ [][NextHeat]_vars

----------------------------------------------------------------------------
(* Spec: one run of main over the input files it may find *)

\* row i of an n-row primary table: the buckets alternate (or only the newest
\* row has one), the close rises, the newest row has no forward return yet,
\* the newest score may be empty
MainRow(i, n, cols, lastScore, newestOnly) ==
    [c \in ColumnNames |->
        IF c = "date" THEN <<i>>
        ELSE IF c \notin cols THEN NaN
        ELSE IF c \in {"fear_greed_1y_rescaled", "fear_greed"}
             THEN (IF i = n THEN lastScore ELSE <<50>>)
        ELSE IF c = "fg_bucket_1y"
             THEN (IF newestOnly THEN (IF i = n THEN <<"Greed">> ELSE NaN)
                   ELSE IF i % 2 = 1 THEN <<"Fear">> ELSE <<"Greed">>)
        ELSE IF c = "index_close" THEN <<100 + i>>
        ELSE IF c = "fwd_ret_20d_1y" THEN (IF i = n THEN NaN ELSE <<1>>)
        ELSE <<1>>]

\* the file's rows in ascending or in descending date order
MainRows(n, cols, lastScore, newestOnly, descending) ==
    [i \in 1..n |->
        MainRow(IF descending THEN n + 1 - i ELSE i, n, cols, lastScore, newestOnly)]

InitMain ==
    /\ pc = "read_fg"
    /\ \/ fgCsv \in {NoCsv, [NoCsv EXCEPT !.state = "unreadable"]}
       \/ \E n \in {0, 1, MaxRowsMain - 1, MaxRowsMain} :
          \E cols \in SUBSET (ColumnNames \ {"date"}) :
          \E lastScore \in {<<55>>, NaN} :
          \E newestOnly \in BOOLEAN, descending \in BOOLEAN :
          \E h \in DateHeaders \cup {"none"} :
             fgCsv = [state |-> "ok", dateHeader |-> h,
                      table |-> [cols |-> cols, rows |-> MainRows(n, cols, lastScore, newestOnly, descending)]]
    /\ fwdCsv \in {"missing", "unreadable", "ok"}
    /\ indexFile \in {AbsentIndex, IndexOfLen(MaxItems)}
    /\ lastRun = <<>>
    /\ runs = 0
    /\ race = <<>>
    /\ kpi = <<>>
    /\ fwdHtml = ""
    /\ written = {}
    /\ err = ""
    /\ TrendIdle
    /\ TableIdle

Next ==
    \/ MainReadFg
    \/ MainKpi
    \/ MainStrategy
    \/ MainFigFgLine
    \/ MainFigComponents
    \/ MainHeatmap
    \/ MainFwdSummary
    \/ MainUpdateIndex
    \/ MainWriteHtml

Spec == InitMain /\ [][Next]_vars

----------------------------------------------------------------------------
(* C1: after any sequence of runs of _update_report_index, starting from an
   absent or well-formed index, the stored items list has at most 10
   entries, no two entries share a filename, and the first entry is the one
   of the most recent run. *)
C1_IndexBounded ==
    runs > 0 =>
        /\ indexFile.state = "ok"
        /\ Len(indexFile.items) <= 10
        /\ \A i, j \in 1..Len(indexFile.items) :
              indexFile.items[i].file = indexFile.items[j].file => i = j
        /\ Len(indexFile.items) >= 1
        /\ indexFile.items[1] = lastRun[1]

\* a full index took a new filename and then a repeated one: the list stays at
\* 10 entries, the repeat moved to the front, the oldest entry dropped
C1_Witness ==
    /\ runs = 2
    /\ Len(indexFile.items) = 10
    /\ indexFile.items[1] = [file |-> DatedFile(11), asof |-> 2]
    /\ indexFile.items[2].file = DatedFile(1)
    /\ indexFile.items[10].file = DatedFile(9)

(* C2: for every defined trailing return r, _trend_bin returns the label of
   the band r lies in: r <= -0.05 strong-down; -0.05 < r <= -0.02 down;
   -0.02 < r < 0.02 flat; 0.02 <= r < 0.05 up; r >= 0.05 strong-up; for an
   undefined r it returns "NA" and none of the five. *)
C2_TrendBands ==
    trendOut # <<>> =>
        LET out == trendOut[1]
            m   == trendIn[1]      \* r in thousandths
        IN  IF trendIn = NaN
            THEN out = "NA" /\ \A k \in 1..5 : TrendOrder[k] # out
            ELSE /\ Cardinality({k \in 1..5 : TrendOrder[k] = out}) = 1
                 /\ (out = "strong_down") <=> (m <= -50)
                 /\ (out = "down") <=> (-50 < m /\ m <= -20)
                 /\ (out = "flat") <=> (-20 < m /\ m < 20)
                 /\ (out = "up") <=> (20 <= m /\ m < 50)
                 /\ (out = "strong_up") <=> (m >= 50)

\* the classifier has answered on the boundary r = 0.02
C2_Witness == trendOut = <<"up">> /\ trendIn = Rat(20, 1000)

(* C3: for each of the 9 (Rule A action, Rule B action) pairs the final
   verdict of _strategy_rules is buy-leaning when the two scores (expand +1,
   neutral 0, reduce -1) sum to 1 or more, defensive-leaning when they sum
   to -1 or less, neutral otherwise. *)
C3_VerdictBySum ==
    strategy # <<>> =>
        LET s == strategy[1]
            buy == {<<"expand", "expand">>, <<"expand", "neutral">>, <<"neutral", "expand">>}
            def == {<<"reduce", "reduce">>, <<"reduce", "neutral">>, <<"neutral", "reduce">>}
            neu == {<<"expand", "reduce">>, <<"reduce", "expand">>, <<"neutral", "neutral">>}
        IN  /\ <<s.A, s.B>> \in buy \cup def \cup neu
            /\ <<s.A, s.B>> \in buy => s.final = "buy_leaning"
            /\ <<s.A, s.B>> \in def => s.final = "defensive_leaning"
            /\ <<s.A, s.B>> \in neu => s.final = "neutral"

\* expand and reduce cancelled each other
C3_Witness ==
    /\ strategy # <<>>
    /\ strategy[1].A = "expand"
    /\ strategy[1].B = "reduce"
    /\ strategy[1].final = "neutral"

(* C4: Rule B yields expand exactly when the latest row's 3-day and 5-day
   trailing returns are both defined and both > 0, reduce exactly when both
   are defined and both < 0, and neutral in every other case. *)
C4_RuleB ==
    strategy # <<>> =>
        LET n    == Len(df.rows)
            c(i) == df.rows[i]["index_close"][1]
            both == "index_close" \in df.cols /\ n >= 6
            up   == both /\ c(n) > c(n - 3) /\ c(n) > c(n - 5)
            down == both /\ c(n) < c(n - 3) /\ c(n) < c(n - 5)
        IN  /\ (strategy[1].B = "expand") <=> up
            /\ (strategy[1].B = "reduce") <=> down
            /\ (strategy[1].B = "neutral") <=> (~up /\ ~down)

\* the 3-day return was zero and the 5-day return positive: neutral
C4_Witness ==
    /\ strategy # <<>>
    /\ Len(df.rows) = 6
    /\ "index_close" \in df.cols
    /\ df.rows[6]["index_close"] = df.rows[3]["index_close"]
    /\ df.rows[6]["index_close"][1] > df.rows[1]["index_close"][1]
    /\ strategy[1].B = "neutral"

\* the rows of df that count for the heat maps: bucket and forward return defined
Contributing == {i \in 1..Len(df.rows) : /\ df.rows[i]["fg_bucket_1y"] # NaN
                                          /\ df.rows[i]["fwd_ret_20d_1y"] # NaN}

\* position of a label in the fixed bucket ordering, past its end for any other label
FixedBuckets == <<"Extreme Fear", "Fear", "Neutral", "Greed", "Extreme Greed">>

Rank(b) == IF \E k \in 1..5 : FixedBuckets[k] = b
           THEN CHOOSE k \in 1..5 : FixedBuckets[k] = b
           ELSE 6

(* C5 as stated: whenever the aggregator produces output, the rows of both
   matrices are the fixed bucket ordering {Extreme Fear, Fear, Neutral,
   Greed, Extreme Greed} and the columns the fixed trend ordering,
   regardless of which buckets occur in the data. *)
C5_Original ==
    (heat # <<>> /\ heat[1].kind = "tables") =>
        /\ heat[1].index = FixedBuckets
        /\ heat[1].columns = TrendOrder

(* C5 amended: whenever the aggregator produces output, the columns of both
   matrices are the fixed trend ordering and the rows are exactly the bucket
   labels that occur among the rows with a defined bucket and forward
   return, each once, in the relative order of the fixed bucket ordering
   (labels outside it last); the two matrices have the same cells. *)
C5_PresentBucketsInOrder ==
    (heat # <<>> /\ heat[1].kind = "tables") =>
        LET idx == heat[1].index IN
        /\ heat[1].columns = <<"strong_down", "down", "flat", "up", "strong_up">>
        /\ {idx[i] : i \in 1..Len(idx)} = {df.rows[i]["fg_bucket_1y"][1] : i \in Contributing}
        /\ \A i, j \in 1..Len(idx) : i < j => idx[i] # idx[j] /\ Rank(idx[i]) <= Rank(idx[j])
        /\ DOMAIN heat[1].mean = DOMAIN heat[1].win
        /\ DOMAIN heat[1].mean =
              {<<idx[i], heat[1].columns[j]>> : i \in 1..Len(idx), j \in 1..5}

\* output whose rows are Extreme Fear then Greed, met in the data in the other order
C5_Witness ==
    /\ heat # <<>>
    /\ heat[1].kind = "tables"
    /\ heat[1].index = <<"Extreme Fear", "Greed">>
    /\ df.rows[1]["fg_bucket_1y"] = <<"Greed">>
    /\ df.rows[1]["fwd_ret_20d_1y"] # NaN
    /\ df.rows[6]["fg_bucket_1y"] = <<"Extreme Fear">>

\* the rows that fall in cell (b, t)
InCell(b, t) ==
    {i \in Contributing :
        /\ df.rows[i]["fg_bucket_1y"][1] = b
        /\ i > 5
        /\ _trend_bin(Rat(df.rows[i]["index_close"][1] - df.rows[i - 5]["index_close"][1],
                          df.rows[i - 5]["index_close"][1])) = t}

RECURSIVE FwdSum(_)
FwdSum(S) ==
    IF S = {} THEN 0
    ELSE LET i == CHOOSE x \in S : TRUE
         IN  df.rows[i]["fwd_ret_20d_1y"][1] + FwdSum(S \ {i})

(* C6: in the output of _make_heatmap_tables a (bucket, trend) cell is
   missing in both matrices if and only if no row with a defined bucket, a
   defined trend bin and a defined 20-day forward return falls in it; a cell
   with such rows holds the mean of their forward returns and the fraction
   of them that are > 0; a missing cell is never 0. *)
C6_CellsMissingOrAggregated ==
    (heat # <<>> /\ heat[1].kind = "tables") =>
        \A c \in DOMAIN heat[1].mean :
            LET S    == InCell(c[1], c[2])
                wins == {i \in S : df.rows[i]["fwd_ret_20d_1y"][1] > 0}
                m    == heat[1].mean[c]
                w    == heat[1].win[c]
            IN  /\ (m = NaN) <=> (S = {})
                /\ (w = NaN) <=> (S = {})
                /\ S # {} => /\ m[2] > 0 /\ m[1] * Cardinality(S) = FwdSum(S) * m[2]
                             /\ w[2] > 0 /\ w[1] * Cardinality(S) = Cardinality(wins) * w[2]

\* one cell averages a gain and a loss to exactly 0 while another cell is missing
C6_Witness ==
    /\ heat # <<>>
    /\ heat[1].kind = "tables"
    /\ \E c \in DOMAIN heat[1].mean :
          /\ heat[1].mean[c] # NaN
          /\ heat[1].mean[c][1] = 0
          /\ heat[1].win[c][1] * 2 = heat[1].win[c][2]
    /\ \E c \in DOMAIN heat[1].mean : heat[1].mean[c] = NaN

(* C7: the current cell returned by _make_heatmap_tables is the
   (bucket_label, trend_bin) of the most recent row by date of the input
   table, also when that row has no forward return yet. *)
C7_LatestIsMostRecentRow ==
    (heat # <<>> /\ heat[1].kind = "tables") =>
        LET n == Len(df.rows)
        IN  heat[1].latest =
               <<Str(df.rows[n]["fg_bucket_1y"]),
                 _trend_bin(pct_change(df, "index_close", 5, n))>>

\* the run's input facts
HeatColAbsent == \E c \in HeatReq : c \notin fgCsv.table.cols

ScoreColAbsent ==
    "fear_greed_1y_rescaled" \notin fgCsv.table.cols /\ "fear_greed" \notin fgCsv.table.cols

Finished == pc \in {"done", "aborted"}

(* C8: if any of the three required columns (bucket label, 20-day forward
   return, closing price) is absent from the input table,
   _make_heatmap_tables returns the unavailable result, no heat-map image is
   written, and the run does not fail for it: it goes on to write the HTML
   reports. *)
C8_AbsentColumnSkipsHeatmaps ==
    (fgCsv.state = "ok" /\ HeatColAbsent) =>
        /\ heat # <<>> => heat[1] = HeatNone
        /\ "heat_mean_20d.png" \notin written
        /\ "heat_win_20d.png" \notin written
        /\ err \notin {"IndexError_heat", "render"}
        /\ (heat # <<>> /\ Finished /\ fwdCsv # "unreadable") =>
              (pc = "done" /\ HtmlFiles \subseteq written)

\* a table without closing prices went all the way to the HTML reports
C8_Witness ==
    /\ pc = "done"
    /\ "index_close" \notin fgCsv.table.cols
    /\ {"fg_bucket_1y", "fwd_ret_20d_1y"} \subseteq fgCsv.table.cols
    /\ heat = <<HeatNone>>
    /\ HtmlFiles \subseteq written

(* C9: whenever a run of main aborts because reading an input fails (the
   primary table is missing or unreadable, or the forward-summary table
   cannot be read), that run has written no output file before aborting. *)
C9_NoOutputBeforeInputAbort ==
    (pc = "aborted" /\ err \in {"FileNotFoundError", "read_csv", "fwd_read_csv"}) =>
        written = {}

(* C10 as stated: if the primary table lacks any one of the required columns
   (date, composite score, bucket label) the run aborts and produces no
   report; a table with no bucket-label column never yields a written HTML
   report. *)
C10_Original ==
    (fgCsv.state = "ok" /\ (\/ fgCsv.dateHeader \notin DateHeaders
                            \/ ScoreColAbsent
                            \/ "fg_bucket_1y" \notin fgCsv.table.cols)) =>
        /\ pc # "done"
        /\ written \cap HtmlFiles = {}

(* C10 amended: if the primary table lacks the date column or the
   composite-score column the run aborts with an error before writing any
   output file; a missing bucket-label column is not fatal: the run reports
   the bucket as "NA", skips the heat maps and, unless it fails for another
   reason, writes the HTML reports. *)
C10_DateOrScoreMissingAborts ==
    /\ (fgCsv.state = "ok" /\ (fgCsv.dateHeader \notin DateHeaders \/ ScoreColAbsent)) =>
          /\ written = {}
          /\ pc \notin {"strategy", "fig_fg_line", "fig_components", "heatmap",
                        "fwd_summary", "update_index", "write_html", "done"}
          /\ pc = "aborted" => err \in {"ValueError_date", "IndexError_empty", "KeyError_score"}
    /\ (fgCsv.state = "ok" /\ "fg_bucket_1y" \notin fgCsv.table.cols) =>
          /\ kpi # <<>> => kpi[1].bucket_name = "NA"
          /\ strategy # <<>> => strategy[1].bucket = "NA"
          /\ heat # <<>> => heat[1] = HeatNone
          /\ (pc = "aborted" /\ kpi # <<>>) => err = "fwd_read_csv"
          /\ (kpi # <<>> /\ Finished /\ fwdCsv # "unreadable") =>
                (pc = "done" /\ HtmlFiles \subseteq written)

\* the score column was missing and the run aborted on it; nothing was written
C10_Witness ==
    /\ pc = "aborted"
    /\ err = "KeyError_score"
    /\ fgCsv.dateHeader \in DateHeaders
    /\ "fg_bucket_1y" \in fgCsv.table.cols
    /\ written = {}

\* the filenames of the stored index
IndexedFiles == {indexFile.items[i].file : i \in 1..Len(indexFile.items)}

BothDone == race # <<>> /\ race[1].pc = "done" /\ race[2].pc = "done"

\* both runs read the file before either began to write it
BothReadFirst == \A p \in {1, 2} : race[p].seen \in {"read", "write"}

\* one run read the file only after the other had finished writing it
OneAfterTheOther == \E p \in {1, 2} : race[p].seen = "done"

\* the entry a run inserts
NewEntry(p) == [file |-> race[p].file, asof |-> race[p].asof]

IndexedEntries == {indexFile.items[i] : i \in 1..Len(indexFile.items)}

\* the filenames of the index a run read
ReadFiles(p) == {race[p].items[i].file : i \in 1..Len(race[p].items)}

(* C11 as stated: when two runs with different dated filenames both read the
   report-index file before either writes it, the final index holds the new
   entry of only one of them (a lost update); when the two runs execute one
   after the other, the final index holds both entries. *)
C11_Original ==
    BothDone =>
        /\ BothReadFirst => Cardinality(IndexedEntries \cap {NewEntry(1), NewEntry(2)}) = 1
        /\ OneAfterTheOther => {NewEntry(1), NewEntry(2)} \subseteq IndexedEntries

(* C11 amended: when both runs read the report-index file before either
   writes it, the final index is the later writer's alone: its new entry is
   first, and the other run's filename is in it only if that filename was
   already in the index the runs read, so the update of a run with a new
   filename is lost; when the two runs execute one after the other, the
   final index holds both new entries, as its first two. *)
C11_LostUpdateWhenInterleaved ==
    BothDone =>
        /\ BothReadFirst =>
              /\ indexFile.items[1] = lastRun[1]
              /\ \A p \in {1, 2} :
                    (NewEntry(p) # lastRun[1] /\ race[p].file \notin ReadFiles(p))
                        => race[p].file \notin IndexedFiles
              /\ \A e \in IndexedEntries \ {lastRun[1]} :
                    \E i \in 1..Len(race[1].items) : race[1].items[i] = e
        /\ OneAfterTheOther =>
              /\ Len(indexFile.items) >= 2
              /\ {indexFile.items[1], indexFile.items[2]} = {NewEntry(1), NewEntry(2)}

\* the lost update: both runs read a full index first, and at the end run 1's
\* new filename is gone while run 2's is there
C11_Witness ==
    /\ BothDone
    /\ BothReadFirst
    /\ Len(race[1].items) = 10
    /\ race[1].file \notin ReadFiles(1)
    /\ race[1].file \notin IndexedFiles
    /\ race[2].file \in IndexedFiles

\* the table has no bucket data: no fg_bucket_1y column, or an empty one
NoBucketData ==
    \/ "fg_bucket_1y" \notin df.cols
    \/ \A i \in 1..Len(df.rows) : df.rows[i]["fg_bucket_1y"] = NaN

(* C12: Rule A yields expand for Extreme Fear and Fear, neutral for Neutral
   and reduce for every other bucket value, including the placeholder "NA"
   used when the bucket column is absent or empty and any unrecognised
   label; so with no bucket data the verdict is never buy-leaning: neutral
   when Rule B is expand, defensive-leaning otherwise. *)
C12_RuleA ==
    strategy # <<>> =>
        LET s    == strategy[1]
            cell == df.rows[Len(df.rows)]["fg_bucket_1y"]
        IN  /\ NoBucketData => s.bucket = "NA"
            /\ ~NoBucketData => s.bucket = (IF cell = NaN THEN "nan" ELSE cell[1])
            /\ (s.A = "expand") <=> (~NoBucketData /\ cell \in {<<"Extreme Fear">>, <<"Fear">>})
            /\ (s.A = "neutral") <=> (~NoBucketData /\ cell = <<"Neutral">>)
            /\ (s.A = "reduce") <=>
                  (NoBucketData \/ cell \notin {<<"Extreme Fear">>, <<"Fear">>, <<"Neutral">>})
            /\ NoBucketData =>
                  /\ s.final # "buy_leaning"
                  /\ (s.final = "neutral") <=> (s.B = "expand")
                  /\ (s.final = "defensive_leaning") <=> (s.B # "expand")

\* no bucket column, both returns positive: the verdict is neutral, not buy-leaning
C12_Witness ==
    /\ strategy # <<>>
    /\ "fg_bucket_1y" \notin df.cols
    /\ strategy[1].bucket = "NA"
    /\ strategy[1].A = "reduce"
    /\ strategy[1].B = "expand"
    /\ strategy[1].final = "neutral"

====
